---- MODULE Spec2Model ----
(***************************************************************************)
(* Webhook event collector and its listener (utils/webhook/ngrok-client.ts),*)
(* the 429 retry helper (requestWithRetryOn429), the payload builder       *)
(* (utils/webhook/webhook-builder.ts) and the single-waiter server         *)
(* (utils/webhook/webhook-server.ts).                                      *)
(*                                                                         *)
(* JavaScript arrays are objects with identity, so the model keeps a heap  *)
(* of arrays: `arrays[r]` is the content of the array with reference r.    *)
(* The module-level `const webhooks` is the array WebhooksRef.             *)
(***************************************************************************)
EXTENDS Integers, Sequences, FiniteSets, TLC

VARIABLES
    now,        \* Date.now(), in milliseconds
    arrays,     \* heap of arrays: arrays[WebhooksRef] is `webhooks`
    handled,    \* POST /webhook: requests handled so far, the last body and its response
    returned,   \* lists handed to callers: reference and content when handed out
    waits,      \* the waitForWebhookStatuses calls, by call
    retry,      \* one requestWithRetryOn429 call and the operation it wraps
    server,     \* the listener of startServer, its tunnel and its stopServer call
    builds,     \* the buildDeliveryWebhook calls made: overrides and result
    hook        \* the server of createWebhookServer: events, resolveNext, waiters

vars == <<now, arrays, handled, returned, waits, retry, server, builds, hook>>

otherVars == <<server, builds, hook>>

collectorVars == <<now, arrays, handled, returned, waits>>

---------------------------------------------------------------------------
(* Bounds of the model. *)

MaxPosts == 3        \* POST /webhook requests per behaviour
MaxGets == 1         \* getWebhooks() calls per behaviour
MaxTimeout == 1      \* largest `timeout` argument, in minutes
MaxRetries == 3      \* largest `retries` argument
MaxStarts == 2       \* startServer() calls per behaviour, the first included
MaxBuilds == 2       \* buildDeliveryWebhook() calls per behaviour
MaxEvents == 3       \* POST /webhook requests to createWebhookServer
MaxWaiters == 2      \* waitForWebhook() calls per behaviour

---------------------------------------------------------------------------
(* Values. *)

\* The reference of the module-level array `webhooks`.
WebhooksRef == 1

\* setInterval(..., 500)
PollMs == 500

\* The value of `w.status` for a body that has no status field.
Undefined == "<undefined>"

\* Status strings: two ordinary ones and the empty string.
StatusStrings == {"created", "delivered", ""}

\* Request bodies: one per status string, and one without a status field.
NoStatusBody == [orderId |-> "o-1"]

Bodies == {[status |-> s] : s \in StatusStrings} \cup {NoStatusBody}

\* The bodies and the expected set of the specification of the copies.
LogBodies == {[status |-> "created"], NoStatusBody}

LogExpected == {"created"}

\* Arguments of waitForWebhookStatuses.
ExpectedSets == SUBSET StatusStrings

Timeouts == 0..MaxTimeout

WaitIds == {1}

\* The calls of the specification with two concurrent waits.
TwoWaitIds == {1, 2}

---------------------------------------------------------------------------
(* Array helpers. *)

\* Array.prototype.includes
Includes(arr, x) == \E i \in DOMAIN arr : arr[i] = x

\* The set of the elements of an array.
Elements(arr) == {arr[i] : i \in DOMAIN arr}

\* w.status
StatusOf(w) == IF "status" \in DOMAIN w THEN w.status ELSE Undefined

\* Boolean(s) for s a string or undefined
Truthy(s) == s # Undefined /\ s # ""

\* webhooks.map((w) => w.status).filter((s) => Boolean(s))
Statuses(arr) == SelectSeq([i \in DOMAIN arr |-> StatusOf(arr[i])], Truthy)

\* AllReceived with `some` in the place of `every`.
AllReceivedSome(expected, statuses) == \E s \in expected : Includes(statuses, s)

\* expectedStatuses.every((s) => statuses.includes(s))
AllReceived(expected, statuses) == \A s \in expected : Includes(statuses, s)

\* The timeout taken for hours.
TimeoutMsOfHours(timeout) == timeout * 1000 * 60 * 60

\* timeout * 1000 * 60
TimeoutMs(timeout) == timeout * 1000 * 60

\* Date.now() - start > timeoutMs
TimedOut(start, timeout, t) == t - start > TimeoutMs(timeout)

\* new Error(`Timeout: not all statuses received. Got: ${statuses}`)
TimeoutError(statuses) == [name |-> "Timeout", got |-> statuses]

NoError == [name |-> "", got |-> <<>>]

\* Push that skips an element the array already holds.
PushUnique(arr, x) == IF \E i \in DOMAIN arr : arr[i] = x THEN arr ELSE Append(arr, x)

\* arr.push(x)
Push(arr, x) == Append(arr, x)

\* Splice that removes one element only, as arr.splice(start, 1) does.
SpliceOne(arr, start) ==
    [i \in 1..(IF Len(arr) > start THEN Len(arr) - 1 ELSE Len(arr)) |->
        IF i <= start THEN arr[i] ELSE arr[i + 1]]

\* arr.splice(start): what is left in arr (the elements before start).
Splice(arr, start) == SubSeq(arr, 1, start)

\* Spread that hands out the array itself, as `() => arr` does.
SpreadAlias(heap, ref) == [heap |-> heap, ref |-> ref]

\* [...arr]: a new array with the elements of arr. Gives the heap and the
\* reference of the result.
Spread(heap, ref) ==
    [heap |-> Append(heap, heap[ref]), ref |-> Len(heap) + 1]

---------------------------------------------------------------------------
(* Promises and timers. *)

PendingPromise == [state |-> "pending", value |-> 0, reason |-> NoError]

\* resolve(v): settles a pending promise, does nothing to a settled one.
Resolve(p, v) ==
    IF p.state = "pending" THEN [p EXCEPT !.state = "resolved", !.value = v] ELSE p

\* reject(e): settles a pending promise, does nothing to a settled one.
Reject(p, e) ==
    IF p.state = "pending" THEN [p EXCEPT !.state = "rejected", !.reason = e] ELSE p

\* ClearInterval that leaves the timer armed.
KeepInterval(w) == w

\* clearInterval(interval)
ClearInterval(w) == [w EXCEPT !.interval = "cleared"]

NotCalled ==
    [called |-> FALSE, expected |-> {}, timeout |-> 0, start |-> 0,
     logged |-> {}, interval |-> "none", due |-> 0, promise |-> PendingPromise]

\* `start` and `loggedStatuses` as variables of the module, which every
\* call overwrites.
OwnStateShared(ws, w, rec) ==
    [v \in DOMAIN ws |->
        IF v = w THEN rec
        ELSE IF ws[v].called
            THEN [ws[v] EXCEPT !.start = rec.start, !.logged = rec.logged]
            ELSE ws[v]]

\* `start`, `loggedStatuses`, the promise and `interval` are locals of the
\* call (lines 39-43): a call makes its own and leaves those of the others.
OwnState(ws, w, rec) == [ws EXCEPT ![w] = rec]

\* The instants the clock shows: each whole minute a timeout can name and
\* the two poll intervals that follow it.
Instants == {TimeoutMs(t) + k * PollMs : t \in Timeouts, k \in 0..2}

---------------------------------------------------------------------------
(* The collector. *)

webhooks == arrays[WebhooksRef]

RetryIdle ==
    [pc |-> "idle", retries |-> 0, backoff |-> 0,
     reqFn |-> [leading |-> 0, then |-> 200],
     i |-> 0, calls |-> 0, delays |-> <<>>, response |-> 0, error |-> ""]

\* The state startServer() leaves: the listener bound, the tunnel open, the
\* tunnel agent running, no stopServer call made. `since` is the number of
\* requests handled when the listener was started.
ServerUp ==
    [listening |-> TRUE, tunnel |-> "open", agent |-> "running", starts |-> 1,
     since |-> 0, pc |-> "running", issued |-> <<>>,
     close |-> "none", disconnect |-> "none", kill |-> "none"]

\* The state createWebhookServer() leaves: no event, resolveNext null (0),
\* no waitForWebhook call made, no response sent.
HookUp ==
    [receivedEvents |-> <<>>, resolveNext |-> 0, waiters |-> <<>>,
     response |-> [status |-> 0, text |-> ""]]

Init ==
    /\ now = 0
    /\ arrays = << <<>> >>
    /\ handled = [count |-> 0, body |-> NoStatusBody, status |-> 0, text |-> ""]
    /\ returned = <<>>
    /\ waits = [w \in WaitIds |-> NotCalled]
    /\ retry = RetryIdle
    /\ server = ServerUp
    /\ builds = <<>>
    /\ hook = HookUp

\* Time passes.
AdvanceClock ==
    /\ \E t \in Instants : t > now /\ now' = t
    /\ UNCHANGED <<arrays, handled, returned, waits, retry, otherVars>>

\* app.post("/webhook", ...)
PostWebhook(data) ==
    /\ handled.count < MaxPosts
    /\ arrays' = [arrays EXCEPT ![WebhooksRef] = Push(webhooks, data)]
    /\ handled' = [count |-> handled.count + 1, body |-> data,
                   status |-> 200, text |-> "OK"]
    /\ UNCHANGED <<now, returned, waits, retry, otherVars>>

\* clearWebhooks: () => webhooks.splice(0)
ClearWebhooks ==
    /\ arrays' = [arrays EXCEPT ![WebhooksRef] = Splice(webhooks, 0)]
    /\ UNCHANGED <<now, handled, returned, waits, retry, otherVars>>

\* getWebhooks: () => [...webhooks]
GetWebhooks ==
    /\ Cardinality({i \in DOMAIN returned : returned[i].by = "getWebhooks"}) < MaxGets
    /\ LET s == Spread(arrays, WebhooksRef) IN
        /\ arrays' = s.heap
        /\ returned' = Append(returned,
               [by |-> "getWebhooks", ref |-> s.ref, items |-> s.heap[s.ref]])
    /\ UNCHANGED <<now, handled, waits, retry, otherVars>>

\* waitForWebhookStatuses(expectedStatuses, timeout), up to the return of
\* the promise: the poll timer is armed.
CallWait(w, expectedStatuses, timeout) ==
    /\ ~waits[w].called
    /\ waits' = OwnState(waits, w,
           [called |-> TRUE, expected |-> expectedStatuses, timeout |-> timeout,
            start |-> now, logged |-> {}, interval |-> "active",
            due |-> now + PollMs, promise |-> PendingPromise])
    /\ UNCHANGED <<now, arrays, handled, returned, retry, otherVars>>

\* One run of the setInterval callback of call w.
Tick(w) ==
    LET c == waits[w]
        statuses == Statuses(webhooks)
        allReceived == AllReceived(c.expected, statuses)
        timedOut == TimedOut(c.start, c.timeout, now)
        s == Spread(arrays, WebhooksRef)
        c1 == [c EXCEPT !.logged = c.logged \cup Elements(statuses),
                        !.due = now + PollMs]
        c2 == IF allReceived
                THEN [ClearInterval(c1) EXCEPT !.promise = Resolve(c1.promise, s.ref)]
                ELSE c1
        c3 == IF timedOut
                THEN [ClearInterval(c2) EXCEPT
                        !.promise = Reject(c2.promise, TimeoutError(statuses))]
                ELSE c2
    IN  /\ c.interval = "active"
        /\ now >= c.due
        /\ waits' = [waits EXCEPT ![w] = c3]
        /\ arrays' = IF allReceived THEN s.heap ELSE arrays
        /\ returned' = IF allReceived
                        THEN Append(returned,
                                [by |-> "wait", ref |-> s.ref, items |-> s.heap[s.ref]])
                        ELSE returned
        /\ UNCHANGED <<now, handled, retry, otherVars>>

Next ==
    \/ AdvanceClock
    \/ \E data \in Bodies : PostWebhook(data)
    \/ ClearWebhooks
    \/ \E w \in WaitIds, e \in ExpectedSets, t \in Timeouts : CallWait(w, e, t)
    \/ \E w \in WaitIds : Tick(w)

\* The collector: the listener's handler, clearWebhooks and one
\* waitForWebhookStatuses call with any arguments, polled as time passes.
Spec == Init /\ [][Next]_vars

\* Bodies of the specification with two waits.
TwoBodies == {[status |-> "created"], [status |-> "delivered"]}

\* The arguments of the two waits: different statuses, and the timeout of
\* the second longer than that of the first.
TwoExpected == <<{"created"}, {"delivered"}>>

TwoTimeouts == <<{0}, Timeouts \ {0}>>

\* Two waitForWebhookStatuses calls, the second made when the first has
\* been made, both polled as time passes and requests arrive.
NextTwo ==
    \/ AdvanceClock
    \/ \E data \in TwoBodies : PostWebhook(data)
    \/ \E w \in TwoWaitIds, t \in Timeouts :
        /\ w = 1 \/ waits[1].called
        /\ t \in TwoTimeouts[w]
        /\ CallWait(w, TwoExpected[w], t)
    \/ \E w \in TwoWaitIds : Tick(w)

\* The state before two calls are made: that of Init, with two calls to
\* make.
InitTwo ==
    /\ now = 0
    /\ arrays = << <<>> >>
    /\ handled = [count |-> 0, body |-> NoStatusBody, status |-> 0, text |-> ""]
    /\ returned = <<>>
    /\ waits = [w \in TwoWaitIds |-> NotCalled]
    /\ retry = RetryIdle
    /\ server = ServerUp
    /\ builds = <<>>
    /\ hook = HookUp

SpecTwo == InitTwo /\ [][NextTwo]_vars

\* Expected statuses of the waits whose termination is followed: none, one
\* that bodies carry, one that the filter of line 44 drops.
LiveExpected == {{}, {"created"}, {""}}

NextLive ==
    \/ AdvanceClock
    \/ \E data \in LogBodies : PostWebhook(data)
    \/ ClearWebhooks
    \/ \E w \in WaitIds, e \in LiveExpected, t \in Timeouts : CallWait(w, e, t)
    \/ \E w \in WaitIds : Tick(w)

\* The collector with its scheduling: the clock goes on to the last instant
\* of the model and an armed poll timer whose interval has passed fires.
SpecLive ==
    /\ Init
    /\ [][NextLive]_vars
    /\ WF_vars(AdvanceClock)
    /\ \A w \in WaitIds : WF_vars(Tick(w))

NextLog ==
    \/ AdvanceClock
    \/ \E data \in LogBodies : PostWebhook(data)
    \/ ClearWebhooks
    \/ GetWebhooks
    \/ \E w \in WaitIds, t \in Timeouts : CallWait(w, LogExpected, t)
    \/ \E w \in WaitIds : Tick(w)

\* The collector with its two readers, getWebhooks and a wait for "created".
SpecLog == Init /\ [][NextLog]_vars

---------------------------------------------------------------------------
(* requestWithRetryOn429 *)

RateLimited == 429

\* response.status() of the operations wrapped: 429 on the first `leading`
\* calls and `then` on every later call.
HttpStatuses == {200, 500, RateLimited}

ReqFns == [leading : 0..MaxRetries, then : HttpStatuses]

Backoffs == {100, 500}

\* (await reqFn()).status() on call number n
StatusOfCall(reqFn, n) == IF n <= reqFn.leading THEN RateLimited ELSE reqFn.then

\* The loop condition with <= in the place of <.
LoopContinuesInclusive(i, retries) == i <= retries

\* the loop condition, i < retries
LoopContinues(i, retries) == i < retries

\* The delay without the + 1.
BackoffDelayFromZero(backoff, i) == backoff * i

\* backoff * (i + 1)
BackoffDelay(backoff, i) == backoff * (i + 1)

\* requestWithRetryOn429(reqFn, retries, backoff), up to the loop.
CallRetry(reqFn, retries, backoff) ==
    /\ retry.pc = "idle"
    /\ retry' = [retry EXCEPT !.pc = "loop", !.reqFn = reqFn,
                              !.retries = retries, !.backoff = backoff, !.i = 0]
    /\ UNCHANGED <<collectorVars, otherVars>>

\* const response = await reqFn(); if (response.status() !== 429) return response;
\* otherwise the delay is started.
RetryAttempt ==
    /\ retry.pc = "loop"
    /\ LoopContinues(retry.i, retry.retries)
    /\ LET status == StatusOfCall(retry.reqFn, retry.calls + 1) IN
        retry' = IF status # RateLimited
                  THEN [retry EXCEPT !.pc = "returned", !.calls = @ + 1,
                                     !.response = status]
                  ELSE [retry EXCEPT !.pc = "delay", !.calls = @ + 1,
                                     !.delays = Append(@, BackoffDelay(retry.backoff, retry.i))]
    /\ UNCHANGED <<collectorVars, otherVars>>

\* The delay ends: i++
RetryDelayEnds ==
    /\ retry.pc = "delay"
    /\ retry' = [retry EXCEPT !.pc = "loop", !.i = @ + 1]
    /\ UNCHANGED <<collectorVars, otherVars>>

\* throw new Error("Too many retries due to 429 errors")
RetryThrows ==
    /\ retry.pc = "loop"
    /\ ~LoopContinues(retry.i, retry.retries)
    /\ retry' = [retry EXCEPT !.pc = "thrown",
                              !.error = "Too many retries due to 429 errors"]
    /\ UNCHANGED <<collectorVars, otherVars>>

NextRetry ==
    \/ \E f \in ReqFns, r \in 0..MaxRetries, b \in Backoffs : CallRetry(f, r, b)
    \/ RetryAttempt
    \/ RetryDelayEnds
    \/ RetryThrows

\* One requestWithRetryOn429 call, with any operation and arguments.
SpecRetry == Init /\ [][NextRetry]_vars

---------------------------------------------------------------------------
(* startServer and stopServer *)

\* The bodies sent to the listener in the specification of its lifecycle.
ServerBodies == {[status |-> "created"]}

\* The outcomes of an asynchronous teardown step.
StepOutcomes == {"ok", "failed"}

\* startServer() with the log created by the listener.
StartServerFreshLog(heap) == [heap EXCEPT ![WebhooksRef] = <<>>]

\* What startServer() does to the arrays: it creates an express app and a
\* listener and opens a tunnel; `webhooks` is the constant of the module and
\* no statement of startServer assigns or empties it.
StartServerArrays(heap) == heap

\* stopServer() without the await of line 146.
DisconnectNotAwaited(s) == s.disconnect \in {"pending", "ok"}

\* `await ngrok.disconnect();` the function goes on to the next statement
\* when the promise of disconnect() is resolved.
DisconnectAwaited(s) == s.disconnect = "ok"

\* stopServer(server), up to its first await: server.close() is called (no
\* callback is passed, the listener stops accepting connections and closes
\* later), then ngrok.disconnect() is called and awaited.
StopServerCall ==
    /\ server.pc = "running"
    /\ server' = [server EXCEPT !.pc = "awaitDisconnect",
                                !.issued = <<"close", "disconnect">>,
                                !.listening = FALSE,
                                !.close = "pending",
                                !.disconnect = "pending"]
    /\ UNCHANGED <<collectorVars, retry, builds, hook>>

\* The listener finishes closing, or fails to: the error of close() goes to
\* the callback, and stopServer passes none.
CloseCompletes(outcome) ==
    /\ server.close = "pending"
    /\ server' = [server EXCEPT !.close = outcome]
    /\ UNCHANGED <<collectorVars, retry, builds, hook>>

\* The promise of ngrok.disconnect() settles.
DisconnectSettles(outcome) ==
    /\ server.disconnect = "pending"
    /\ server' = [server EXCEPT
           !.disconnect = outcome,
           !.tunnel = IF outcome = "ok" THEN "closed" ELSE @]
    /\ UNCHANGED <<collectorVars, retry, builds, hook>>

\* stopServer goes on after the await: `await ngrok.kill();`
StopIssuesKill ==
    /\ server.pc = "awaitDisconnect"
    /\ DisconnectAwaited(server)
    /\ server' = [server EXCEPT !.pc = "awaitKill",
                                !.issued = Append(@, "kill"),
                                !.kill = "pending"]
    /\ UNCHANGED <<collectorVars, retry, builds, hook>>

\* The awaited disconnect() rejected: nothing catches it, stopServer rejects
\* and its remaining statement is not executed.
StopRejects ==
    /\ server.pc = "awaitDisconnect"
    /\ server.disconnect = "failed"
    /\ server' = [server EXCEPT !.pc = "rejected"]
    /\ UNCHANGED <<collectorVars, retry, builds, hook>>

\* The promise of ngrok.kill() settles and stopServer ends with it.
KillSettles(outcome) ==
    /\ server.kill = "pending"
    /\ server' = [server EXCEPT
           !.kill = outcome,
           !.agent = IF outcome = "ok" THEN "killed" ELSE @,
           !.pc = IF outcome = "ok" THEN "stopped" ELSE "rejected"]
    /\ UNCHANGED <<collectorVars, retry, builds, hook>>

\* startServer(), called again once stopServer has ended and the port is
\* free.
StartServer ==
    /\ server.pc \in {"stopped", "rejected"}
    /\ server.close \in {"ok", "failed"}
    /\ server.disconnect # "pending"
    /\ server.starts < MaxStarts
    /\ server' = [ServerUp EXCEPT !.starts = server.starts + 1,
                                  !.since = handled.count]
    /\ arrays' = StartServerArrays(arrays)
    /\ UNCHANGED <<now, handled, returned, waits, retry, builds, hook>>

\* The listener over its starts and stops: requests reach it while it
\* listens, and a wait is made on the accessors of the second start.
NextServer ==
    \/ StopServerCall
    \/ \E outcome \in StepOutcomes : CloseCompletes(outcome)
    \/ \E outcome \in StepOutcomes : DisconnectSettles(outcome)
    \/ StopIssuesKill
    \/ StopRejects
    \/ \E outcome \in StepOutcomes : KillSettles(outcome)
    \/ StartServer
    \/ \E data \in ServerBodies : server.listening /\ PostWebhook(data)
    \/ ClearWebhooks
    \/ AdvanceClock
    \/ \E w \in WaitIds :
        server.starts > 1 /\ server.listening /\ CallWait(w, LogExpected, 0)
    \/ \E w \in WaitIds : Tick(w)

SpecServer == Init /\ [][NextServer]_vars

---------------------------------------------------------------------------
(* buildDeliveryWebhook (utils/webhook/webhook-builder.ts) *)

\* An object is a function from its own keys to their values; a key whose
\* value is undefined is a key of the object.
EmptyObject == [k \in {} |-> k]

\* { ...target, ...source }: every own key of source is copied over target,
\* whatever its value.
SpreadObject(target, source) ==
    [k \in DOMAIN target \cup DOMAIN source |->
        IF k \in DOMAIN source THEN source[k] ELSE target[k]]

\* uuidv4() of the n-th call.
Uuid(n) == "uuid-" \o ToString(n)

\* The literal of lines 27-46.
DefaultWebhook(orderId) ==
    [orderId |-> orderId,
     status |-> "delivering",
     paid |-> TRUE,
     leaveAtTheDoor |-> TRUE,
     deliveryAddress |->
        [city |-> "Sydney", street |-> "Wallaby Way", house |-> "42",
         flat |-> "3", entrance |-> "2", intercom |-> "2",
         comment |-> "Please ring and leave at the door if no answer"],
     clientInfo |-> [name |-> "Peter Gaevoy", phone |-> "+61 999 322 633"]]

\* buildDeliveryWebhook(overrides)
BuildDeliveryWebhook(overrides, orderId) ==
    SpreadObject(DefaultWebhook(orderId), overrides)

\* Overrides: no status key, or a status key with a string or with
\* undefined, together with at most one other key.
StatusOverrides ==
    {EmptyObject} \cup
    {[status |-> s] : s \in {"delivered", "delivering", "", Undefined}}

OtherOverrides ==
    {EmptyObject, [orderId |-> "o-1"], [paid |-> FALSE],
     [clientInfo |-> [name |-> "Ann"]]}

Overrides == {SpreadObject(a, b) : a \in StatusOverrides, b \in OtherOverrides}

\* A call of buildDeliveryWebhook.
Build(overrides) ==
    /\ Len(builds) < MaxBuilds
    /\ builds' = Append(builds,
          [overrides |-> overrides,
           result |-> BuildDeliveryWebhook(overrides, Uuid(Len(builds) + 1))])
    /\ UNCHANGED <<collectorVars, retry, server, hook>>

NextBuild == \E overrides \in Overrides : Build(overrides)

SpecBuild == Init /\ [][NextBuild]_vars

---------------------------------------------------------------------------
(* createWebhookServer (utils/webhook/webhook-server.ts) *)

\* The bodies sent to POST /webhook.
HookBodies == {[status |-> "created"], [status |-> "delivered"]}

\* The value of a promise that has none.
NoEvent == [status |-> Undefined]

\* new Promise(...) of waitForWebhook
PendingEvent == [state |-> "pending", value |-> NoEvent, reason |-> ""]

\* new Error("Timed out waiting for webhook event")
TimedOutError == "Timed out waiting for webhook event"

\* The handler passing the oldest stored event to the waiter.
DeliveredOldest(events) == events[1]

\* resolveNext(data): `data` is the body of the request being handled, the
\* one just pushed.
Delivered(events) == events[Len(events)]

\* waitForWebhook that keeps a resolver already installed.
SetResolveNextIfFree(current, w) == IF current = 0 THEN w ELSE current

\* resolveNext = (data) => {...}: the assignment replaces whatever resolver
\* is installed with the one of call w.
SetResolveNext(current, w) == w

\* clearTimeout(timeout): disarms an armed timer, does nothing to one that
\* has fired.
ClearTimeout(timer) == IF timer = "armed" THEN "cleared" ELSE timer

\* waitForWebhook(timeoutMs): the promise is made, its timer armed and its
\* resolver installed. The duration is not modelled: the timer fires at some
\* later step, which is the instant timeoutMs after the call. `at` is the
\* number of events received before the call, `alone` tells whether no
\* other waiter was pending at the call, `endedAt` is the number of events
\* received when the promise was settled (-1 before).
WaitForWebhook ==
    /\ Len(hook.waiters) < MaxWaiters
    /\ LET w == Len(hook.waiters) + 1 IN
       hook' = [hook EXCEPT
           !.waiters = Append(@,
               [promise |-> PendingEvent, timeout |-> "armed",
                at |-> Len(hook.receivedEvents),
                alone |-> \A v \in DOMAIN hook.waiters :
                            hook.waiters[v].promise.state # "pending",
                endedAt |-> -1]),
           !.resolveNext = SetResolveNext(@, w)]
    /\ UNCHANGED <<collectorVars, retry, server, builds>>

\* app.post("/webhook", ...) of createWebhookServer
HookPost(data) ==
    /\ Len(hook.receivedEvents) < MaxEvents
    /\ LET events == Push(hook.receivedEvents, data)
           r == hook.resolveNext
       IN hook' = [hook EXCEPT
           !.receivedEvents = events,
           !.waiters = IF r = 0 THEN @
                       ELSE [@ EXCEPT ![r] =
                           [@ EXCEPT
                               !.timeout = ClearTimeout(@),
                               !.promise = Resolve(@, Delivered(events)),
                               !.endedAt = IF hook.waiters[r].promise.state = "pending"
                                            THEN Len(events) ELSE @]],
           !.resolveNext = 0,
           !.response = [status |-> 200, text |-> "OK"]]
    /\ UNCHANGED <<collectorVars, retry, server, builds>>

\* The setTimeout callback of call w.
TimeoutFires(w) ==
    /\ w \in DOMAIN hook.waiters
    /\ hook.waiters[w].timeout = "armed"
    /\ hook' = [hook EXCEPT
           !.waiters[w] =
               [@ EXCEPT
                   !.timeout = "fired",
                   !.promise = Reject(@, TimedOutError),
                   !.endedAt = IF hook.waiters[w].promise.state = "pending"
                                THEN Len(hook.receivedEvents) ELSE @]]
    /\ UNCHANGED <<collectorVars, retry, server, builds>>

NextHook ==
    \/ WaitForWebhook
    \/ \E data \in HookBodies : HookPost(data)
    \/ \E w \in 1..MaxWaiters : TimeoutFires(w)

SpecHook == Init /\ [][NextHook]_vars

---------------------------------------------------------------------------
(* Vocabulary of the properties. *)

\* Status coverage: every string of `expected` is the status field of at
\* least one body of the log.
Recorded(expected, log) ==
    \A s \in expected :
        \E i \in DOMAIN log : "status" \in DOMAIN log[i] /\ log[i].status = s

Pending(w) == waits[w].called /\ waits[w].promise.state = "pending"

Settled(w) == waits[w].promise.state # "pending"

\* Milliseconds since call w was made.
Elapsed(w) == now - waits[w].start

\* The statuses of the bodies of the log that a message can show: the
\* empty string leaves no trace in a list joined by commas.
ShownStatuses(log) ==
    {log[i].status : i \in {j \in DOMAIN log : "status" \in DOMAIN log[j]}} \ {""}

---------------------------------------------------------------------------
(* Properties of waitForWebhookStatuses, under Spec. *)

\* C1: at a poll tick of a pending wait, if every status of its expected
\* set is the status of a body in the log (recorded, and not cleared
\* since), the wait is resolved by that tick, whatever the order, the
\* duplicates and the other bodies of the log.
C1_ResolvesOnceRecorded ==
    [][\A w \in WaitIds :
        (Tick(w) /\ Pending(w) /\ Recorded(waits[w].expected, webhooks))
            => waits'[w].promise.state = "resolved"]_vars

\* C1, for expected sets without the empty string: the same property, which
\* holds, so the empty string is the only status that is recorded and never
\* found.
ResolvesOnceRecordedNonEmpty ==
    [][\A w \in WaitIds :
        (Tick(w) /\ Pending(w) /\ "" \notin waits[w].expected
            /\ Recorded(waits[w].expected, webhooks))
            => waits'[w].promise.state = "resolved"]_vars

\* C2: a step that resolves a wait is taken with status coverage of its
\* expected set, and the resolved value is a list equal to the whole log at
\* that step, so the statuses of the value include the expected set.
C2_ResolvedCoversExpected ==
    [][\A w \in WaitIds :
        (Pending(w) /\ waits'[w].promise.state = "resolved")
            => LET value == arrays'[waits'[w].promise.value] IN
                /\ Recorded(waits[w].expected, webhooks)
                /\ value = webhooks
                /\ arrays'[WebhooksRef] = webhooks
                /\ waits[w].expected \subseteq {StatusOf(x) : x \in Elements(value)}]_vars

\* C2 witness: a wait for two statuses is resolved with a log of three bodies.
C2_Witness ==
    \E w \in WaitIds :
        /\ waits[w].promise.state = "resolved"
        /\ Cardinality(waits[w].expected) = 2
        /\ Len(arrays[waits[w].promise.value]) = 3

\* C3: a step that rejects a wait is taken at a poll tick where more than
\* `timeout` minutes have passed since the call and status coverage of the
\* expected set does not hold, and the error is the Timeout error listing the
\* statuses of the bodies of the log (none when there is none).
C3_RejectsOnlyUncovered ==
    [][\A w \in WaitIds :
        (Pending(w) /\ waits'[w].promise.state = "rejected")
            => /\ Elapsed(w) > waits[w].timeout * 60000
               /\ ~Recorded(waits[w].expected, webhooks)
               /\ waits'[w].promise.reason.name = "Timeout"
               /\ Elements(waits'[w].promise.reason.got) = ShownStatuses(webhooks)]_vars

\* C3, for expected sets without the empty string: the same property, which
\* holds.
RejectsOnlyUncoveredNonEmpty ==
    [][\A w \in WaitIds :
        (Pending(w) /\ "" \notin waits[w].expected
            /\ waits'[w].promise.state = "rejected")
            => /\ Elapsed(w) > waits[w].timeout * 60000
               /\ ~Recorded(waits[w].expected, webhooks)
               /\ waits'[w].promise.reason.name = "Timeout"
               /\ Elements(waits'[w].promise.reason.got) = ShownStatuses(webhooks)]_vars

\* C4: a poll tick of a pending wait at which the deadline has passed and
\* every status of the expected set is in the log resolves the wait.
C4_SuccessWinsTie ==
    [][\A w \in WaitIds :
        (Tick(w) /\ Pending(w) /\ Elapsed(w) > waits[w].timeout * 60000
            /\ Recorded(waits[w].expected, webhooks))
            => waits'[w].promise.state = "resolved"]_vars

\* C4, for expected sets without the empty string: the same property, which
\* holds.
SuccessWinsTieNonEmpty ==
    [][\A w \in WaitIds :
        (Tick(w) /\ Pending(w) /\ "" \notin waits[w].expected
            /\ Elapsed(w) > waits[w].timeout * 60000
            /\ Recorded(waits[w].expected, webhooks))
            => waits'[w].promise.state = "resolved"]_vars

\* C5: a settled wait never changes again and no poll tick runs for it; a
\* wait that is settled has its timer stopped and holds one outcome only, a
\* value or an error.
C5_SettledOnce ==
    [][\A w \in WaitIds :
        /\ Settled(w) => (waits'[w] = waits[w] /\ ~Tick(w))
        /\ waits'[w].promise.state # "pending"
            => /\ waits'[w].interval = "cleared"
               /\ waits'[w].promise.state = "resolved"
                    => waits'[w].promise.reason = NoError
               /\ waits'[w].promise.state = "rejected"
                    => waits'[w].promise.value = 0]_vars

\* C5 witness: a wait resolved by a tick that ran after its deadline, the
\* tick in which both resolve and reject are called (the tick set `due`).
C5_Witness ==
    \E w \in WaitIds :
        /\ waits[w].promise.state = "resolved"
        /\ (waits[w].due - PollMs) - waits[w].start > TimeoutMs(waits[w].timeout)

---------------------------------------------------------------------------
(* Properties of requestWithRetryOn429, under SpecRetry. *)

---------------------------------------------------------------------------
(* Properties of the event log. *)

\* C8, under Spec: a step of clearWebhooks leaves a log of which getWebhooks()
\* gives the empty list; every other step leaves the log as it is or appends
\* one body at its end, so its length does not decrease.
C8_AppendOrClear ==
    [][IF ClearWebhooks
        THEN LET s == Spread(arrays', WebhooksRef) IN s.heap[s.ref] = <<>>
        ELSE /\ Len(arrays'[WebhooksRef]) >= Len(webhooks)
             /\ \/ arrays'[WebhooksRef] = webhooks
                \/ \E b \in Bodies : arrays'[WebhooksRef] = Append(webhooks, b)]_vars

\* C8 witness: a log of one body after three requests: it was cleared when
\* it held two bodies, and appended to afterwards.
C8_Witness ==
    /\ Len(webhooks) = 1
    /\ handled.count = 3

\* C9, under SpecLog: a list handed out by getWebhooks() or as the value of a
\* wait keeps, over every later step, the content it had when handed out; the
\* step that hands it out leaves the log unchanged and gives the log's content.
C9_ReturnedListsAreCopies ==
    [][/\ \A i \in DOMAIN returned : arrays'[returned[i].ref] = returned[i].items
       /\ Len(returned') > Len(returned)
            => /\ arrays'[WebhooksRef] = webhooks
               /\ returned'[Len(returned')].items = webhooks]_vars

\* C9 witness: a list from getWebhooks() and the value of a wait, both with
\* bodies, and a log that has changed since both were handed out.
C9_Witness ==
    \E i, j \in DOMAIN returned :
        /\ returned[i].by = "getWebhooks"
        /\ returned[j].by = "wait"
        /\ returned[i].items # <<>>
        /\ returned[j].items # <<>>
        /\ webhooks # returned[i].items
        /\ webhooks # returned[j].items

\* C10, under Spec: a step that handles a POST /webhook request handles one
\* request, appends its body at the end of the log and answers 200.
C10_PostAppendsAndAcks ==
    [][handled'.count # handled.count
        => /\ handled'.count = handled.count + 1
           /\ arrays'[WebhooksRef] = Append(webhooks, handled'.body)
           /\ handled'.status = 200]_vars

\* C10 witness: the log holds three bodies, two of them equal and one
\* without a status field.
C10_Witness ==
    /\ Len(webhooks) = 3
    /\ handled.status = 200
    /\ \E i, j \in DOMAIN webhooks : i < j /\ webhooks[i] = webhooks[j]
    /\ \E i \in DOMAIN webhooks : webhooks[i] = NoStatusBody

---------------------------------------------------------------------------
(* Properties of startServer and stopServer, under SpecServer. *)

TeardownOrder == <<"close", "disconnect", "kill">>

\* C11: stopServer issues its teardown steps in the order close, disconnect,
\* kill: the steps issued so far are always a prefix of that order, and kill
\* is issued only once the promise of disconnect has settled.
C11_TeardownInOrder ==
    /\ Len(server.issued) <= Len(TeardownOrder)
    /\ server.issued = SubSeq(TeardownOrder, 1, Len(server.issued))
    /\ server.kill # "none" => server.disconnect \in StepOutcomes

\* A completed teardown, the listener still closing when the agent is
\* killed.
C11_Witness ==
    /\ server.pc = "stopped"
    /\ server.issued = TeardownOrder
    /\ server.close = "pending"
    /\ server.agent = "killed"

\* C12: a failing teardown step does not abort the remaining ones: when
\* stopServer has ended, all three steps have been issued, whichever of them
\* failed.
C12_FailureDoesNotAbort ==
    server.pc \in {"stopped", "rejected"} => server.issued = TeardownOrder

\* C15: the log has the lifecycle of its listener: on a listener started
\* after a stopServer, as long as it has handled no request, the log is
\* empty.
C15_LogHasListenerLifecycle ==
    (server.starts > 1 /\ handled.count = server.since) => webhooks = <<>>

\* C15, amended: the log has the lifetime of the module: it is empty when
\* the module is loaded, and no step of stopServer and no startServer
\* changes it or any array, so that the bodies an earlier listener recorded
\* stay in the log of the next one.
C15_LogOutlivesListener ==
    [][server' # server => arrays' = arrays]_vars

\* A wait made on the second listener is resolved with a body the first
\* listener recorded, the second one having handled no request.
C15_Witness ==
    /\ server.starts = 2
    /\ handled.count = server.since
    /\ handled.count > 0
    /\ \E w \in WaitIds :
        /\ waits[w].promise.state = "resolved"
        /\ Len(arrays[waits[w].promise.value]) > 0

---------------------------------------------------------------------------
(* Properties of buildDeliveryWebhook, under SpecBuild. *)

\* o.status is defined: o has the key and its value is not undefined.
StatusDefined(o) == "status" \in DOMAIN o /\ o.status # Undefined

\* C13: the status of buildDeliveryWebhook(o) is o.status when o.status is
\* defined and the default "delivering" otherwise, a status key holding
\* undefined included.
C13_StatusOverrideOrDefault ==
    \A i \in DOMAIN builds :
        LET o == builds[i].overrides IN
        builds[i].result.status =
            IF StatusDefined(o) THEN o.status ELSE "delivering"

\* The status of the result is the value of the own status key of o,
\* undefined included, and the default only when o has no such key.
StatusOverrideOrDefaultOwnKey ==
    \A i \in DOMAIN builds :
        LET o == builds[i].overrides IN
        builds[i].result.status =
            IF "status" \in DOMAIN o THEN o.status ELSE "delivering"

---------------------------------------------------------------------------
(* Properties of clearWebhooks during a wait, under Spec. *)

\* The poll tick of wait w, when it fires next, resolves the wait: the timer
\* is armed and the log covers the expected statuses.
NextTickResolves(w) ==
    /\ waits[w].interval = "active"
    /\ AllReceived(waits[w].expected, Statuses(webhooks))

\* C14: clearWebhooks() does not affect a wait in flight: when the expected
\* statuses have been recorded, so that the next poll tick resolves the
\* wait, a clearWebhooks() call made before that tick leaves it so.
C14_ClearKeepsOutcome ==
    [][ClearWebhooks =>
        \A w \in WaitIds : NextTickResolves(w) => NextTickResolves(w)']_vars

---------------------------------------------------------------------------
(* Termination of waitForWebhookStatuses, under SpecLive. *)

\* The last instant of the model's clock.
LastInstant == CHOOSE t \in Instants : \A u \in Instants : u <= t

\* The deadline of wait w, in milliseconds on the clock.
Deadline(w) == waits[w].start + waits[w].timeout * 60000

\* C16: a wait ends only by success or by timeout, and it ends. A pending
\* wait is settled only by its poll tick, resolved with the log covering
\* its statuses or rejected with the Timeout error after its deadline; while
\* it is pending its poll timer stays armed; a poll tick after the deadline
\* leaves it settled; and with the clock advancing and the ticks firing, a
\* wait whose deadline lies before the last instant of the clock is
\* eventually settled, whatever is recorded and cleared meanwhile.
C16_TerminatesBySuccessOrTimeout ==
    /\ [][\A w \in WaitIds :
            /\ (Pending(w) /\ Settled(w)') =>
                /\ waits'[w].due = now + PollMs
                /\ \/ /\ waits'[w].promise.state = "resolved"
                      /\ \A s \in waits[w].expected :
                            \E i \in DOMAIN webhooks : StatusOf(webhooks[i]) = s
                   \/ /\ waits'[w].promise.state = "rejected"
                      /\ waits'[w].promise.reason.name = "Timeout"
                      /\ now > Deadline(w)
            /\ Pending(w)' => waits'[w].interval = "active"
            /\ (Pending(w) /\ waits'[w].due # waits[w].due /\ now > Deadline(w))
                    => Settled(w)'
       ]_vars
    /\ \A w \in WaitIds :
        (Pending(w) /\ Deadline(w) < LastInstant) ~> Settled(w)

\* A wait rejected at the first tick after its deadline, with a body
\* recorded and cleared while it was pending.
C16_Witness ==
    \E w \in WaitIds :
        /\ waits[w].promise.state = "rejected"
        /\ waits[w].expected # {}
        /\ handled.count > 0
        /\ webhooks = <<>>

---------------------------------------------------------------------------
(* Two concurrent waits, under SpecTwo. *)

\* What a poll tick at instant t makes of a pending call c by the arguments
\* and the start time of that call alone.
OutcomeAlone(c, log, t) ==
    IF \A s \in c.expected : Includes(Statuses(log), s) THEN "resolved"
    ELSE IF t - c.start > c.timeout * 60000 THEN "rejected"
    ELSE "pending"

\* C17: two outstanding waits are independent. A step of one call changes
\* neither the record of the other (start time, logged statuses, timer,
\* promise) nor the log and the clock the other reads; a call keeps its
\* arguments and its start time; and each poll tick of a pending call gives
\* the outcome its own arguments and start time give on the log, the other
\* call made or not.
C17_WaitsAreIndependent ==
    [][\A w \in TwoWaitIds :
        waits'[w] # waits[w] =>
            /\ \A v \in TwoWaitIds \ {w} : waits'[v] = waits[v]
            /\ webhooks' = webhooks
            /\ now' = now
            /\ waits[w].called =>
                /\ waits'[w].start = waits[w].start
                /\ waits'[w].expected = waits[w].expected
                /\ waits'[w].timeout = waits[w].timeout
            /\ Pending(w) =>
                waits'[w].promise.state = OutcomeAlone(waits[w], webhooks, now)
      ]_vars

\* Two waits with different statuses and timeouts, each made before the
\* last tick of the other, one resolved and one rejected.
C17_Witness ==
    /\ waits[1].promise.state = "resolved"
    /\ waits[2].promise.state = "rejected"
    /\ waits[1].expected # waits[2].expected
    /\ waits[1].timeout # waits[2].timeout
    /\ waits[2].start < waits[1].due - PollMs
    /\ waits[1].start < waits[2].due - PollMs

---------------------------------------------------------------------------
(* Coverage over the whole log, under Spec. *)

\* No poll tick of call w has run yet.
BeforeFirstTick(w) == waits[w].due = waits[w].start + PollMs

\* C18: coverage is computed over the whole log: the first poll tick of a
\* wait resolves it when the log at that tick holds a body for every
\* expected status, whenever those bodies were recorded; in particular it
\* resolves a wait that expects no status, whatever the log holds.
C18_FirstTickResolves ==
    [][\A w \in WaitIds :
        (Tick(w) /\ Pending(w) /\ BeforeFirstTick(w)
            /\ Recorded(waits[w].expected, webhooks))
            => waits'[w].promise.state = "resolved"]_vars

\* C18, for expected sets without the empty string, the empty set included:
\* the same property, which holds.
FirstTickResolvesNonEmpty ==
    [][\A w \in WaitIds :
        (Tick(w) /\ Pending(w) /\ BeforeFirstTick(w)
            /\ "" \notin waits[w].expected
            /\ Recorded(waits[w].expected, webhooks))
            => waits'[w].promise.state = "resolved"]_vars

---------------------------------------------------------------------------
(* Properties of createWebhookServer, under SpecHook. *)

Waiters == DOMAIN hook.waiters

WaiterPending(w) == hook.waiters[w].promise.state = "pending"

\* A request is handled in this step.
EventHandled == Len(hook.receivedEvents') = Len(hook.receivedEvents) + 1

\* The event handled in this step.
HandledEvent == hook.receivedEvents'[Len(hook.receivedEvents')]

\* The most recent waitForWebhook call.
LastCall == Len(hook.waiters)

\* What C19 says of every call apart from the event that resolves it: a
\* settled promise never changes; a resolved one holds the first event
\* received after its call, so no event received before it; a rejected one
\* holds the timed-out error; the timer of a pending call, when it fires,
\* rejects it; and one event resolves at most one waiter.
SettledOnceByEventOrTimeout ==
    /\ \A w \in Waiters :
        /\ ~WaiterPending(w) =>
            hook.waiters'[w].promise = hook.waiters[w].promise
        /\ hook.waiters'[w].promise.state = "resolved" =>
            /\ Len(hook.receivedEvents') > hook.waiters[w].at
            /\ hook.waiters'[w].promise.value =
                    hook.receivedEvents'[hook.waiters[w].at + 1]
        /\ hook.waiters'[w].promise.state = "rejected" =>
            hook.waiters'[w].promise.reason = "Timed out waiting for webhook event"
        /\ (WaiterPending(w) /\ hook.waiters[w].timeout = "armed"
                /\ hook.waiters'[w].timeout = "fired") =>
            hook.waiters'[w].promise.state = "rejected"
    /\ Cardinality({w \in Waiters :
            WaiterPending(w) /\ hook.waiters'[w].promise.state = "resolved"}) <= 1

\* C19: a waitForWebhook call made while no other waiter is pending is
\* settled exactly once: the first event handled after the call, if the
\* call is still pending (its timer has not fired), resolves it with the
\* body of that event; otherwise it is rejected with the timed-out error;
\* events received before the call are stored and not delivered; one event
\* resolves at most one waiter.
C19_AloneCallGetsFirstEvent ==
    [][/\ SettledOnceByEventOrTimeout
       /\ \A w \in Waiters :
            (EventHandled /\ hook.waiters[w].alone /\ WaiterPending(w)) =>
                /\ hook.waiters'[w].promise.state = "resolved"
                /\ hook.waiters'[w].promise.value = HandledEvent
      ]_vars

\* C19, amended: the same for a call made while no other waiter is pending
\* and after which no other waitForWebhook call has been made.
C19_LastAloneCallGetsFirstEvent ==
    [][/\ SettledOnceByEventOrTimeout
       /\ \A w \in Waiters :
            (EventHandled /\ hook.waiters[w].alone /\ WaiterPending(w)
                /\ w = LastCall) =>
                /\ hook.waiters'[w].promise.state = "resolved"
                /\ hook.waiters'[w].promise.value = HandledEvent
      ]_vars

\* A call made alone, after an event had been received, resolved with the
\* next event, whose body is not that of the earlier one; and a call made
\* alone that was rejected.
C19_Witness ==
    \E w, v \in Waiters :
        /\ hook.waiters[w].alone
        /\ hook.waiters[w].promise.state = "resolved"
        /\ hook.waiters[w].at > 0
        /\ hook.waiters[w].promise.value # hook.receivedEvents[hook.waiters[w].at]
        /\ hook.waiters[v].alone
        /\ hook.waiters[v].promise.state = "rejected"

\* C20: only the most recent waitForWebhook call can be resolved by an
\* event. An event resolves no call but the most recent one, and resolves
\* that one if it is pending; a pending call that is not the most recent
\* one keeps its timer armed, is left pending by every event and is
\* rejected when its timer fires.
C20_OnlyLastCallResolved ==
    [][\A w \in Waiters :
        /\ (WaiterPending(w) /\ hook.waiters'[w].promise.state = "resolved") =>
            w = LastCall
        /\ (EventHandled /\ WaiterPending(w) /\ w = LastCall) =>
            /\ hook.waiters'[w].promise.state = "resolved"
            /\ hook.waiters'[w].promise.value = HandledEvent
        /\ (WaiterPending(w) /\ w # LastCall) =>
            /\ hook.waiters[w].timeout = "armed"
            /\ EventHandled => hook.waiters'[w] = hook.waiters[w]
            /\ hook.waiters'[w].timeout = "fired" =>
                /\ hook.waiters'[w].promise.state = "rejected"
                /\ hook.waiters'[w].promise.reason = "Timed out waiting for webhook event"
      ]_vars

\* A second call made while the first was pending; the next event resolved
\* the second, and the first was rejected after that event.
C20_Witness ==
    /\ Len(hook.waiters) >= 2
    /\ ~hook.waiters[2].alone
    /\ hook.waiters[2].promise.state = "resolved"
    /\ hook.waiters[2].endedAt = hook.waiters[2].at + 1
    /\ hook.waiters[1].promise.state = "rejected"
    /\ hook.waiters[1].endedAt >= hook.waiters[2].endedAt

====
